---- MODULE Spec2Model ----
(***************************************************************************)
(* The MXNet front end of BytePS (byteps/mxnet/ops.cc): the entry point    *)
(* byteps_mxnet_push_pull_async, the three stage closures it hands to the  *)
(* MXNet engine (DoInit, DoFirstStage, DoSecondStage), the completion      *)
(* bridge InvokeCompleteCallback and the name generator GetOpName.         *)
(*                                                                         *)
(* Collaborators whose code is not in ops.cc are modelled from their       *)
(* documented contract: the context registry and the stage back ends of    *)
(* byteps/common (IsTensorInitialized, GetContextFromName, InitTensor,     *)
(* EnqueueTensorPush, EnqueueTensorPull, CheckInitialized), the            *)
(* aggregation service, and the host engine, which starts a task only     *)
(* when every earlier conflicting task on the same variable has invoked    *)
(* its completion callback.                                                *)
(***************************************************************************)
EXTENDS Integers, Sequences, FiniteSets, TLC

VARIABLES
    op_count,         \* std::atomic_int op_count
    pc,               \* per caller thread: position inside GetOpName
    bps_initialized,  \* what common::CheckInitialized() reports
    halted,           \* the process was aborted by a failed BPS_CHECK
    inline_div,       \* how the build applies NDArray::operator/=
    contexts,         \* the registry: tensor name -> BPSContext
    content,          \* the data held by each NDArray
    calls,            \* history: one record per byteps_mxnet_push_pull_async call
    tasks,            \* the engine's operations, in submission order
    remote,           \* the values the other workers hold for the tensor
    frame,            \* per caller thread: the locals of a call traced line by line
    refs              \* history: every <<name, context>> a lookup has returned

vars == <<op_count, pc, bps_initialized, halted, inline_div, contexts, content,
          calls, tasks, remote, frame, refs>>

(***************************************************************************)
(* Bounds of the model.                                                    *)
(***************************************************************************)
MaxCalls == 2
NumThreads == 2

Threads == 1..NumThreads
Tensors == {1, 2, 3}
UserNames == {"a"}
Reasons == {"r1", "r2"}
Priorities == {0, 1}
LookupNames == {"a", "b"}

(***************************************************************************)
(* Program constants and the tensor adapter.                               *)
(***************************************************************************)
CPU_DEVICE_ID == -1
NumWorkers == 4

\* This process is worker 1. Tensors hold multiples of the worker count, on
\* which the division by the worker count is exact, as it is for the
\* floating-point data of the arrays.
OtherWorkers == 2..NumWorkers
InitialContent == NumWorkers
RemoteValues == {NumWorkers, 2 * NumWorkers}

\* TensorUtil::GetSize / GetDevice / GetDType of the three handles: handles 1
\* and 2 are distinct arrays of the same shape on the host, handle 3 is a
\* larger array on device 0.
GetSize(x) == IF x = 3 THEN 2 ELSE 1
GetDevice(x) == IF x = 3 THEN 0 ELSE CPU_DEVICE_ID
GetDType(x) == "float32"

(***************************************************************************)
(* Status and the completion bridge.                                       *)
(***************************************************************************)
OkStatus == [ok |-> TRUE, reason |-> ""]
ErrorStatus(r) == [ok |-> FALSE, reason |-> r]
Statuses == {OkStatus} \cup {ErrorStatus(r) : r \in Reasons}

NoStatus == [given |-> FALSE, ok |-> FALSE, reason |-> ""]
Given(s) == [given |-> TRUE, ok |-> s.ok, reason |-> s.reason]

NotCalled == [called |-> FALSE, error |-> FALSE, reason |-> ""]
Complete == [called |-> TRUE, error |-> FALSE, reason |-> ""]
CompleteWithError(r) == [called |-> TRUE, error |-> TRUE, reason |-> r]

\* mutant: the bridge drops the status and always reports success
InvokeCompleteCallbackSwallow(status) == Complete

InvokeCompleteCallback(status) ==
    IF status.ok
    THEN Complete
    ELSE CompleteWithError(status.reason)

(***************************************************************************)
(* GetOpName.                                                              *)
(***************************************************************************)
GetOpNameUser(prefix, name) == prefix \o "." \o name

GetOpNameAnonymous(prefix, count) == prefix \o ".noname." \o ToString(count)

(***************************************************************************)
(* The context registry of byteps/common.                                  *)
(***************************************************************************)
\* id tells the context instances apart.
NewContext(id) ==
    [id |-> id, state |-> "Uninitialized", attrs |-> <<0, 0, "">>,
     cpubuff |-> FALSE, registrations |-> 0]

RECURSIVE MaxId(_)
MaxId(names) ==
    IF names = {} THEN 0
    ELSE LET n == CHOOSE m \in names : TRUE
             rest == MaxId(names \ {n})
         IN  IF contexts[n].id > rest THEN contexts[n].id ELSE rest

\* "true", "false", or "conflict" when the name is reused for a tensor of
\* another size, device or dtype.
IsTensorInitialized(name, size, device, dtype) ==
    IF name \notin DOMAIN contexts THEN "false"
    ELSE IF contexts[name].state = "Uninitialized" THEN "false"
    ELSE IF contexts[name].attrs # <<size, device, dtype>> THEN "conflict"
    ELSE IF contexts[name].state = "Ready" THEN "true"
    ELSE "false"

\* mutant: every lookup builds a new context for the name
GetContextFromNameAlwaysNew(name) ==
    [n \in DOMAIN contexts \cup {name} |->
        IF n = name THEN NewContext(MaxId(DOMAIN contexts) + 1) ELSE contexts[n]]

\* Returns the registry with the context of the name in it, created on the
\* first lookup.
GetContextFromName(name) ==
    IF name \in DOMAIN contexts
    THEN contexts
    ELSE [n \in DOMAIN contexts \cup {name} |->
            IF n = name THEN NewContext(MaxId(DOMAIN contexts) + 1)
            ELSE contexts[n]]

(***************************************************************************)
(* The operations byteps_mxnet_push_pull_async pushes to the engine.       *)
(***************************************************************************)
\* Engine::PushAsync(fn, ctx, const_vars, mutable_vars, kNormal, 0, name):
\* priority is the engine's priority argument, the literal 0 of lines 130,
\* 141 and 150; captured is the priority the closure holds and hands to
\* EnqueueTensorPush and EnqueueTensorPull; sent is the data the push has
\* delivered to the aggregation service; enqueue_priority is the priority
\* argument of the EnqueueTensorPush or EnqueueTensorPull call the stage has
\* made, -1 before it.
EngineOp(cid, kind, x, name, reads, writes, p) ==
    [call |-> cid, kind |-> kind, tensor |-> x, name |-> name,
     const_vars |-> reads, mutable_vars |-> writes,
     priority |-> 0, captured |-> p, enqueue_priority |-> -1, sent |-> 0,
     st |-> "queued", status |-> NoStatus, cb |-> NotCalled]

\* mutant: the init operation declares no variable
InitAsyncNoVar(cid, x, name) == EngineOp(cid, "init", x, name, {}, {}, 0)

InitAsync(cid, x, name) == EngineOp(cid, "init", x, name, {}, {x}, 0)

\* mutant: the push closure does not capture the caller's priority
FirstStageAsyncNoPriority(cid, x, name, p) == EngineOp(cid, "push", x, name, {x}, {}, 0)

\* mutant: the push operation declares no variable
FirstStageAsyncNoVar(cid, x, name, p) == EngineOp(cid, "push", x, name, {}, {}, p)

FirstStageAsync(cid, x, name, p) == EngineOp(cid, "push", x, name, {x}, {}, p)

\* mutant: the pull operation declares the tensor as read, not written
SecondStageAsyncRead(cid, x, name, p) == EngineOp(cid, "pull", x, name, {x}, {}, p)

SecondStageAsync(cid, x, name, p) == EngineOp(cid, "pull", x, name, {}, {x}, p)

\* *tensor /= num_worker, when NDArray dispatches it through the engine
DivideAsync(cid, x, name) == EngineOp(cid, "div", x, name, {}, {x}, 0)

\* mutant: the tensor is not divided
DivideNot(v) == v

Divide(v) == v \div NumWorkers

\* mutant: an init operation is pushed whatever IsTensorInitialized says
PushedOpsAlwaysInit(cid, x, name, chk, p) ==
    IF chk = "conflict" THEN << >>
    ELSE <<InitAsync(cid, x, name), FirstStageAsync(cid, x, name, p),
           SecondStageAsync(cid, x, name, p)>>

\* mutant: a name conflict is treated as "not initialized"
PushedOpsReinit(cid, x, name, chk, p) ==
    (IF chk # "true" THEN <<InitAsync(cid, x, name)>> ELSE << >>)
    \o <<FirstStageAsync(cid, x, name, p), SecondStageAsync(cid, x, name, p)>>

\* mutant: no init operation is pushed for a name that already has a context
PushedOpsNoRetry(cid, x, name, chk, p) ==
    IF chk = "conflict" THEN << >>
    ELSE (IF chk = "false" /\ name \notin DOMAIN contexts
          THEN <<InitAsync(cid, x, name)>> ELSE << >>)
         \o <<FirstStageAsync(cid, x, name, p), SecondStageAsync(cid, x, name, p)>>

\* Lines 119-150. A conflict is raised by IsTensorInitialized before the
\* first PushAsync and leaves through MX_API_END.
PushedOps(cid, x, name, chk, p) ==
    IF chk = "conflict" THEN << >>
    ELSE (IF chk = "false" THEN <<InitAsync(cid, x, name)>> ELSE << >>)
         \o <<FirstStageAsync(cid, x, name, p), SecondStageAsync(cid, x, name, p)>>

(***************************************************************************)
(* The host engine's dependency rule.                                      *)
(***************************************************************************)
Touches(i) == tasks[i].const_vars \cup tasks[i].mutable_vars

Conflict(i, j) ==
    \/ tasks[i].mutable_vars \cap Touches(j) # {}
    \/ tasks[j].mutable_vars \cap Touches(i) # {}

Completed(i) == tasks[i].st = "done"

CanStart(j) ==
    /\ ~halted
    /\ tasks[j].st = "queued"
    /\ \A i \in 1..(j - 1) : Conflict(i, j) => Completed(i)

\* The locals of a call that is traced line by line: where it stands, its
\* call number, tensor_name, and the contexts its two lookups returned.
IdleFrame == [pc |-> "idle", call |-> 0, name |-> "", ref122 |-> 0, ref133 |-> 0]

(***************************************************************************)
(* Initial state.                                                          *)
(***************************************************************************)
InitLocal ==
    /\ op_count = 0
    /\ pc = [t \in Threads |-> "idle"]
    /\ bps_initialized = FALSE
    /\ halted = FALSE
    /\ inline_div \in BOOLEAN
    /\ contexts = << >>
    /\ content = [x \in Tensors |-> InitialContent]
    /\ calls = << >>
    /\ tasks = << >>
    /\ frame = [t \in Threads |-> IdleFrame]
    /\ refs = {}

Init ==
    /\ InitLocal
    /\ remote = [w \in OtherWorkers |-> 2 * NumWorkers]

\* The same, for any values held by the other workers.
InitWorkers ==
    /\ InitLocal
    /\ remote \in [OtherWorkers -> RemoteValues]

(***************************************************************************)
(* byteps_mxnet_push_pull_async.                                           *)
(***************************************************************************)
InCall == Cardinality({t \in Threads : pc[t] # "idle"})

\* Lines 115-156, with tensor_name already computed.
byteps_mxnet_push_pull_async(t, x, anon, tensor_name, priority) ==
    LET cid == Len(calls) + 1
        chk == IsTensorInitialized(tensor_name, GetSize(x), GetDevice(x), GetDType(x))
        ops == PushedOps(cid, x, tensor_name, chk, priority)
        inl == chk # "conflict" /\ inline_div
        rec == [tensor |-> x, anon |-> anon, name |-> tensor_name,
                priority |-> priority, before |-> content[x],
                ret |-> IF chk = "conflict" THEN -1 ELSE 0,
                err |-> IF chk = "conflict" THEN "NameConflict" ELSE "",
                pulled |-> FALSE, scaled |-> inl]
    IN  /\ calls' = Append(calls, rec)
        /\ contexts' = IF chk = "conflict" THEN contexts
                       ELSE GetContextFromName(tensor_name)
        /\ tasks' = IF chk = "conflict" \/ inline_div THEN tasks \o ops
                    ELSE tasks \o ops \o <<DivideAsync(cid, x, tensor_name)>>
        /\ content' = IF inl THEN [content EXCEPT ![x] = Divide(@)] ELSE content

\* A call with a user-supplied name: GetOpName returns at line 36.
PushPullNamed(t, x, u, p) ==
    /\ ~halted
    /\ pc[t] = "idle"
    /\ Len(calls) + InCall < MaxCalls
    /\ byteps_mxnet_push_pull_async(t, x, FALSE, GetOpNameUser("byteps", u), p)
    /\ UNCHANGED <<remote, frame, refs, op_count, pc, bps_initialized, halted, inline_div>>

\* A call without a name, up to and including op_count.fetch_add(1), line 39.
PushPullAnonymousEnter(t) ==
    /\ ~halted
    /\ pc[t] = "idle"
    /\ Len(calls) + InCall < MaxCalls
    /\ op_count' = op_count + 1
    /\ pc' = [pc EXCEPT ![t] = "line40"]
    /\ UNCHANGED <<remote, frame, refs, bps_initialized, halted, inline_div, contexts, content, calls, tasks>>

\* The rest of that call: line 40 loads op_count again, then lines 115-156.
PushPullAnonymousRest(t, x, p) ==
    /\ ~halted
    /\ pc[t] = "line40"
    /\ byteps_mxnet_push_pull_async(t, x, TRUE, GetOpNameAnonymous("byteps", op_count), p)
    /\ pc' = [pc EXCEPT ![t] = "idle"]
    /\ UNCHANGED <<remote, frame, refs, op_count, bps_initialized, halted, inline_div>>

\* byteps_init of the common layer.
GlobalInit ==
    /\ ~halted
    /\ ~bps_initialized
    /\ bps_initialized' = TRUE
    /\ UNCHANGED <<remote, frame, refs, op_count, pc, halted, inline_div, contexts, content, calls, tasks>>

(***************************************************************************)
(* The stages, as the engine runs them.                                    *)
(***************************************************************************)
SetTask(j, st, status, cb) ==
    [tasks EXCEPT ![j].st = st, ![j].status = status, ![j].cb = cb]

Finish(j, s) == SetTask(j, "done", Given(s), InvokeCompleteCallback(s))

\* DoInit, lines 53-66. enqueued is what InitTensor returns.
DoInit(j, enqueued) ==
    /\ CanStart(j)
    /\ tasks[j].kind = "init"
    /\ IF ~bps_initialized \/ ~enqueued
       THEN tasks' = SetTask(j, "thrown", NoStatus, NotCalled)
       ELSE IF contexts[tasks[j].name].state = "Ready"
       THEN tasks' = Finish(j, OkStatus)
       ELSE tasks' = SetTask(j, "waiting", NoStatus, NotCalled)
    /\ UNCHANGED <<remote, frame, refs, op_count, pc, bps_initialized, halted, inline_div, contexts,
                   content, calls>>

\* The aggregation service rejects the registration.
InitRejected(j, r) ==
    /\ ~halted
    /\ tasks[j].kind = "init"
    /\ tasks[j].st = "waiting"
    /\ tasks' = Finish(j, ErrorStatus(r))
    /\ UNCHANGED <<remote, frame, refs, op_count, pc, bps_initialized, halted, inline_div, contexts,
                   content, calls>>

\* The aggregation service accepts the registration.
InitAccepted(j) ==
    /\ ~halted
    /\ tasks[j].kind = "init"
    /\ tasks[j].st = "waiting"
    /\ LET x == tasks[j].tensor
           n == tasks[j].name
       IN contexts' = [contexts EXCEPT
            ![n].state = IF @ = "Ready" THEN "Ready" ELSE "Initializing",
            ![n].attrs = <<GetSize(x), GetDevice(x), GetDType(x)>>,
            ![n].cpubuff = @ \/ GetDevice(x) # CPU_DEVICE_ID,
            ![n].registrations = @ + 1]
    /\ tasks' = SetTask(j, "accepted", NoStatus, NotCalled)
    /\ UNCHANGED <<remote, frame, refs, op_count, pc, bps_initialized, halted, inline_div, content, calls>>

\* InitTensor's callback reports success.
InitDone(j) ==
    /\ ~halted
    /\ tasks[j].kind = "init"
    /\ tasks[j].st = "accepted"
    /\ contexts' = [contexts EXCEPT ![tasks[j].name].state = "Ready"]
    /\ tasks' = Finish(j, OkStatus)
    /\ UNCHANGED <<remote, frame, refs, op_count, pc, bps_initialized, halted, inline_div, content, calls>>

\* mutant: the stage does not check context.cpubuff
DoStageNoCheck(j, enqueued) ==
    /\ CanStart(j)
    /\ IF ~bps_initialized \/ ~enqueued
       THEN tasks' = SetTask(j, "thrown", NoStatus, NotCalled)
       ELSE tasks' = [SetTask(j, "waiting", NoStatus, NotCalled) EXCEPT
                         ![j].enqueue_priority = tasks[j].captured]
    /\ UNCHANGED <<remote, frame, refs, op_count, pc, bps_initialized, halted, inline_div, contexts,
                   content, calls>>

\* The part DoFirstStage and DoSecondStage share, lines 70-85 and 90-105.
DoStage(j, enqueued) ==
    /\ CanStart(j)
    /\ IF ~bps_initialized
       THEN tasks' = SetTask(j, "thrown", NoStatus, NotCalled) /\ UNCHANGED halted
       ELSE IF GetDevice(tasks[j].tensor) # CPU_DEVICE_ID
               /\ ~contexts[tasks[j].name].cpubuff
       THEN halted' = TRUE /\ UNCHANGED tasks
       ELSE IF ~enqueued
       THEN tasks' = SetTask(j, "thrown", NoStatus, NotCalled) /\ UNCHANGED halted
       ELSE /\ tasks' = [SetTask(j, "waiting", NoStatus, NotCalled) EXCEPT
                            ![j].enqueue_priority = tasks[j].captured]
            /\ UNCHANGED halted
    /\ UNCHANGED <<remote, frame, refs, op_count, pc, bps_initialized, inline_div, contexts, content, calls>>

DoFirstStage(j, enqueued) ==
    /\ tasks[j].kind = "push"
    /\ DoStage(j, enqueued)

DoSecondStage(j, enqueued) ==
    /\ tasks[j].kind = "pull"
    /\ DoStage(j, enqueued)

\* The status callback of EnqueueTensorPush, lines 82-84: on success the
\* service has taken the tensor's data.
PushReply(j, s) ==
    /\ ~halted
    /\ tasks[j].kind = "push"
    /\ tasks[j].st = "waiting"
    /\ tasks' = [Finish(j, s) EXCEPT
                    ![j].sent = IF s.ok THEN content[tasks[j].tensor] ELSE 0]
    /\ UNCHANGED <<remote, frame, refs, op_count, pc, bps_initialized, halted, inline_div, contexts,
                   content, calls>>

\* What the other workers push: they run the same build, so with the
\* in-place division their data is divided before it is pushed.
RemotePushed(w) == IF inline_div THEN Divide(remote[w]) ELSE remote[w]

RECURSIVE SumRemote(_)
SumRemote(ws) ==
    IF ws = {} THEN 0
    ELSE LET w == CHOOSE v \in ws : TRUE
         IN  RemotePushed(w) + SumRemote(ws \ {w})

\* The sum-reducing service: what this worker's push of the same call
\* delivered, plus what the other workers pushed.
Aggregate(j) ==
    LET q == CHOOSE i \in 1..Len(tasks) :
                 tasks[i].call = tasks[j].call /\ tasks[i].kind = "push"
    IN  tasks[q].sent + SumRemote(OtherWorkers)

\* The status callback of EnqueueTensorPull, lines 102-104: on success the
\* aggregated value has been written into the tensor.
PullReply(j, s) ==
    /\ ~halted
    /\ tasks[j].kind = "pull"
    /\ tasks[j].st = "waiting"
    /\ tasks' = Finish(j, s)
    /\ IF s.ok
       THEN /\ content' = [content EXCEPT ![tasks[j].tensor] = Aggregate(j)]
            /\ calls' = [calls EXCEPT ![tasks[j].call].pulled = TRUE]
       ELSE UNCHANGED <<content, calls>>
    /\ UNCHANGED <<remote, frame, refs, op_count, pc, bps_initialized, halted, inline_div, contexts>>

\* The engine runs the division pushed by line 154.
DoDivide(j) ==
    /\ CanStart(j)
    /\ tasks[j].kind = "div"
    /\ content' = [content EXCEPT ![tasks[j].tensor] = Divide(@)]
    /\ calls' = [calls EXCEPT ![tasks[j].call].scaled = TRUE]
    /\ tasks' = SetTask(j, "done", NoStatus, Complete)
    /\ UNCHANGED <<remote, frame, refs, op_count, pc, bps_initialized, halted, inline_div, contexts>>

\* No guard reads the priority: here every call passes priority 1, and
\* NextWorkers draws it from Priorities.
Next ==
    \/ GlobalInit
    \/ \E t \in Threads, x \in Tensors, u \in UserNames : PushPullNamed(t, x, u, 1)
    \/ \E t \in Threads : PushPullAnonymousEnter(t)
    \/ \E t \in Threads, x \in Tensors : PushPullAnonymousRest(t, x, 1)
    \/ \E j \in 1..Len(tasks), e \in BOOLEAN : DoInit(j, e)
    \/ \E j \in 1..Len(tasks), r \in Reasons : InitRejected(j, r)
    \/ \E j \in 1..Len(tasks) : InitAccepted(j)
    \/ \E j \in 1..Len(tasks) : InitDone(j)
    \/ \E j \in 1..Len(tasks), e \in BOOLEAN : DoFirstStage(j, e)
    \/ \E j \in 1..Len(tasks), s \in Statuses : PushReply(j, s)
    \/ \E j \in 1..Len(tasks), e \in BOOLEAN : DoSecondStage(j, e)
    \/ \E j \in 1..Len(tasks), s \in Statuses : PullReply(j, s)
    \/ \E j \in 1..Len(tasks) : DoDivide(j)

Spec == Init /\ [][Next]_vars

(***************************************************************************)
(* The job of NumWorkers workers with an aggregation service that answers  *)
(* every request: calls of any priority, stages that are enqueued and      *)
(* reported Ok.                                                            *)
(***************************************************************************)
NextWorkers ==
    \/ GlobalInit
    \/ \E t \in Threads, x \in Tensors, u \in UserNames, p \in Priorities :
          PushPullNamed(t, x, u, p)
    \/ \E j \in 1..Len(tasks) : DoInit(j, TRUE)
    \/ \E j \in 1..Len(tasks) : InitAccepted(j)
    \/ \E j \in 1..Len(tasks) : InitDone(j)
    \/ \E j \in 1..Len(tasks) : DoFirstStage(j, TRUE)
    \/ \E j \in 1..Len(tasks) : PushReply(j, OkStatus)
    \/ \E j \in 1..Len(tasks) : DoSecondStage(j, TRUE)
    \/ \E j \in 1..Len(tasks) : PullReply(j, OkStatus)
    \/ \E j \in 1..Len(tasks) : DoDivide(j)

SpecWorkers == InitWorkers /\ [][NextWorkers]_vars

(***************************************************************************)
(* The entry point traced line by line, so that the lookups of concurrent  *)
(* callers interleave. The engine runs the init operations meanwhile.      *)
(***************************************************************************)
\* Lines 113-120: the name and IsTensorInitialized. A conflict leaves the
\* call through MX_API_END.
Line120(t, x, u) ==
    LET cid == Len(calls) + 1
        tensor_name == GetOpNameUser("byteps", u)
        chk == IsTensorInitialized(tensor_name, GetSize(x), GetDevice(x), GetDType(x))
        rec == [tensor |-> x, anon |-> FALSE, name |-> tensor_name,
                priority |-> 1, before |-> content[x],
                ret |-> IF chk = "conflict" THEN -1 ELSE 0,
                err |-> IF chk = "conflict" THEN "NameConflict" ELSE "",
                pulled |-> FALSE, scaled |-> FALSE]
    IN  /\ ~halted
        /\ frame[t].pc = "idle"
        /\ Len(calls) < MaxCalls
        /\ calls' = Append(calls, rec)
        /\ frame' = [frame EXCEPT ![t] =
                        [pc |-> IF chk = "false" THEN "line122"
                                ELSE IF chk = "true" THEN "line133" ELSE "idle",
                         call |-> cid, name |-> tensor_name,
                         ref122 |-> 0, ref133 |-> 0]]
        /\ UNCHANGED <<op_count, pc, bps_initialized, halted, inline_div, contexts,
                       content, tasks, remote, refs>>

\* Lines 122-130: the first lookup and the init operation.
Line122(t) ==
    LET cid == frame[t].call
        tensor_name == frame[t].name
        found == GetContextFromName(tensor_name)
    IN  /\ ~halted
        /\ frame[t].pc = "line122"
        /\ contexts' = found
        /\ refs' = refs \cup {<<tensor_name, found[tensor_name].id>>}
        /\ tasks' = Append(tasks, InitAsync(cid, calls[cid].tensor, tensor_name))
        /\ frame' = [frame EXCEPT ![t].pc = "line133",
                                  ![t].ref122 = found[tensor_name].id]
        /\ UNCHANGED <<op_count, pc, bps_initialized, halted, inline_div, content,
                       calls, remote>>

\* Lines 133-156: the second lookup, the two stages and the division.
Line133(t) ==
    LET cid == frame[t].call
        x == calls[cid].tensor
        tensor_name == frame[t].name
        found == GetContextFromName(tensor_name)
        ops == <<FirstStageAsync(cid, x, tensor_name, calls[cid].priority),
                 SecondStageAsync(cid, x, tensor_name, calls[cid].priority)>>
    IN  /\ ~halted
        /\ frame[t].pc = "line133"
        /\ contexts' = found
        /\ refs' = refs \cup {<<tensor_name, found[tensor_name].id>>}
        /\ tasks' = IF inline_div THEN tasks \o ops
                    ELSE tasks \o ops \o <<DivideAsync(cid, x, tensor_name)>>
        /\ content' = IF inline_div THEN [content EXCEPT ![x] = Divide(@)] ELSE content
        /\ calls' = [calls EXCEPT ![cid].scaled = inline_div]
        /\ frame' = [frame EXCEPT ![t].pc = "idle",
                                  ![t].ref133 = found[tensor_name].id]
        /\ UNCHANGED <<op_count, pc, bps_initialized, halted, inline_div, remote>>

LookupNext ==
    \/ GlobalInit
    \/ \E t \in Threads, x \in Tensors, u \in LookupNames : Line120(t, x, u)
    \/ \E t \in Threads : Line122(t)
    \/ \E t \in Threads : Line133(t)
    \/ \E j \in 1..Len(tasks) : DoInit(j, TRUE)
    \/ \E j \in 1..Len(tasks) : InitAccepted(j)
    \/ \E j \in 1..Len(tasks) : InitDone(j)

SpecLookup == Init /\ [][LookupNext]_vars

(***************************************************************************)
(* Vocabulary of the properties.                                           *)
(***************************************************************************)
TaskIds == 1..Len(tasks)
CallIds == 1..Len(calls)

OpsOf(c, kind) == {j \in TaskIds : tasks[j].call = c /\ tasks[j].kind = kind}

\* the stage's closure has begun to run
Started(j) == tasks[j].st # "queued"

\* the stage has invoked on_complete
Signalled(j) == tasks[j].cb.called

PipelineFinished(c) == \A j \in TaskIds : tasks[j].call = c => Signalled(j)

\* a step in which byteps_mxnet_push_pull_async returns
CallStep == Len(calls') = Len(calls) + 1
NewCall == calls'[Len(calls')]
NewOps == SubSeq(tasks', Len(tasks) + 1, Len(tasks'))
IsStage(op) == op.kind # "div"
AttrsOf(x) == <<GetSize(x), GetDevice(x), GetDType(x)>>

\* the order of the context states
Rank(state) ==
    CASE state = "Uninitialized" -> 0
      [] state = "Initializing" -> 1
      [] state = "Ready" -> 2

(***************************************************************************)
(* C1: in every synchronize call, the pull stage has not begun to run      *)
(* while the push stage of the same call has not invoked its completion    *)
(* callback.                                                               *)
(***************************************************************************)
PullWaitsForPush ==
    \A c \in CallIds : \A p \in OpsOf(c, "pull") : \A q \in OpsOf(c, "push") :
        Started(p) => Signalled(q)

\* a pull whose transfer is in flight
PullInFlight ==
    \E j \in TaskIds : tasks[j].kind = "pull" /\ tasks[j].st = "waiting"

(***************************************************************************)
(* C2: in a call that submits an initialization task, the push stage has   *)
(* not begun to run while the initialization has not invoked its           *)
(* completion callback, and the pull stage has not begun while the push    *)
(* has not invoked its own: Initializer, Push, Pull run in that order.     *)
(***************************************************************************)
InitPushPullOrder ==
    \A c \in CallIds : \A i \in OpsOf(c, "init") :
        /\ \A q \in OpsOf(c, "push") : Started(q) => Signalled(i)
        /\ \A p \in OpsOf(c, "pull") :
              Started(p) => (Signalled(i) /\ \A q \in OpsOf(c, "push") : Signalled(q))

\* a call that submitted an initialization and whose pull is in flight
InitCallReachesPull ==
    \E c \in CallIds :
        /\ OpsOf(c, "init") # {}
        /\ \E p \in OpsOf(c, "pull") : tasks[p].st = "waiting"

(***************************************************************************)
(* C3: the names generated for anonymous requests are pairwise distinct,   *)
(* whatever the interleaving of the callers' counter increments and        *)
(* counter reads.                                                          *)
(***************************************************************************)
AnonymousNamesDistinct ==
    \A c, d \in CallIds :
        (c # d /\ calls[c].anon /\ calls[d].anon) => calls[c].name # calls[d].name

(***************************************************************************)
(* C4: when the aggregation service reports an error for the push of a     *)
(* call, the push's completion callback carries exactly that reason and,   *)
(* once the call's pipeline has finished, the tensor holds what it held    *)
(* before the call: neither a pull write-back nor the division by the      *)
(* worker count was applied.                                               *)
(***************************************************************************)
PushErrorLeavesTensor ==
    \A c \in CallIds : \A q \in OpsOf(c, "push") :
        (tasks[q].status.given /\ ~tasks[q].status.ok /\ PipelineFinished(c))
        => /\ tasks[q].cb.error
           /\ tasks[q].cb.reason = tasks[q].status.reason
           /\ ~calls[c].pulled
           /\ ~calls[c].scaled
           /\ (\A d \in CallIds : calls[d].tensor = calls[c].tensor => d = c)
                 => content[calls[c].tensor] = calls[c].before

(***************************************************************************)
(* C5: the division by the worker count has taken effect only if the pull  *)
(* stage of the same call has invoked its completion callback without an   *)
(* error.                                                                  *)
(***************************************************************************)
DivisionOnlyAfterPullSuccess ==
    \A c \in CallIds :
        calls[c].scaled =>
            \E p \in OpsOf(c, "pull") : Signalled(p) /\ ~tasks[p].cb.error

(***************************************************************************)
(* C6: for every name, the context's state only moves forward,             *)
(* Uninitialized -> Initializing -> Ready, and the aggregation service     *)
(* accepts a registration for that name at most once, whatever the         *)
(* sequence of synchronize calls on that name.                             *)
(***************************************************************************)
InitializedOnce ==
    [][\A n \in DOMAIN contexts :
          /\ Rank(contexts'[n].state) >= Rank(contexts[n].state)
          /\ contexts'[n].registrations <= 1]_vars

(***************************************************************************)
(* C7: a synchronize call on a name whose context is Ready with the same   *)
(* size, device and dtype registers nothing again: it pushes no            *)
(* initialization operation, leaves the context as it is, and pushes       *)
(* exactly one push stage followed by exactly one pull stage.              *)
(***************************************************************************)
ReadyContextSkipsInit ==
    [][(/\ CallStep
        /\ NewCall.name \in DOMAIN contexts
        /\ contexts[NewCall.name].state = "Ready"
        /\ contexts[NewCall.name].attrs = AttrsOf(NewCall.tensor))
       => (/\ NewCall.ret = 0
           /\ contexts' = contexts
           /\ \A k \in 1..Len(NewOps) : NewOps[k].kind # "init"
           /\ LET stages == SelectSeq(NewOps, IsStage)
              IN  /\ Len(stages) = 2
                  /\ stages[1].kind = "push"
                  /\ stages[2].kind = "pull"
                  /\ stages[1].call = Len(calls')
                  /\ stages[2].call = Len(calls'))]_vars

\* a call that returned success and pushed no initialization
CallOnReadyContext ==
    \E c \in CallIds :
        /\ calls[c].ret = 0
        /\ OpsOf(c, "init") = {}
        /\ OpsOf(c, "push") # {}
        /\ contexts[calls[c].name].registrations = 1

(***************************************************************************)
(* C8: when the global runtime is not initialized at the time synchronize  *)
(* is called, the call returns an error and has pushed no init, push or    *)
(* pull operation to the engine.                                           *)
(***************************************************************************)
RuntimeCheckedBeforeSubmission ==
    [][(CallStep /\ ~bps_initialized)
       => (NewCall.ret # 0 /\ tasks' = tasks)]_vars

(***************************************************************************)
(* C9: a synchronize call on a name whose context has recorded a size,     *)
(* device or dtype other than the tensor's fails with a name-conflict      *)
(* error, pushes no operation and leaves every context unchanged.          *)
(***************************************************************************)
NameConflictFails ==
    [][(/\ CallStep
        /\ NewCall.name \in DOMAIN contexts
        /\ contexts[NewCall.name].state # "Uninitialized"
        /\ contexts[NewCall.name].attrs # AttrsOf(NewCall.tensor))
       => (/\ NewCall.ret = -1
           /\ NewCall.err = "NameConflict"
           /\ tasks' = tasks
           /\ contexts' = contexts)]_vars

\* a call that was refused while the context held another tensor's attributes
ConflictingCallRefused ==
    \E c \in CallIds :
        /\ calls[c].ret = -1
        /\ contexts[calls[c].name].attrs # AttrsOf(calls[c].tensor)
        /\ contexts[calls[c].name].state # "Uninitialized"

(***************************************************************************)
(* C10: for every stage and every status delivered to its status           *)
(* callback, the engine's completion callback is invoked without an error  *)
(* exactly when the status is Ok, and otherwise with an error whose        *)
(* reason is the status's reason.                                          *)
(***************************************************************************)
StatusReachesCallback ==
    \A j \in TaskIds :
        /\ tasks[j].status.given =>
              /\ tasks[j].cb.called
              /\ tasks[j].cb.error = ~tasks[j].status.ok
              /\ ~tasks[j].status.ok => tasks[j].cb.reason = tasks[j].status.reason
        /\ (tasks[j].kind # "div" /\ tasks[j].cb.called) => tasks[j].status.given

\* every stage has bridged an error, and both reasons have been bridged
ErrorsBridged ==
    /\ \A k \in {"init", "push", "pull"} :
          \E j \in TaskIds : tasks[j].kind = k /\ tasks[j].cb.error
    /\ \A r \in Reasons :
          \E j \in TaskIds : tasks[j].status.given /\ tasks[j].status.reason = r

(***************************************************************************)
(* C11: every stage pushed to the engine ends by invoking its completion   *)
(* callback, with or without an error. Stated on the runs that have come   *)
(* to rest: when the process is alive, no operation can start and no       *)
(* request to the service is outstanding, every pushed operation has       *)
(* invoked its completion callback; in particular a stage whose            *)
(* CheckInitialized or enqueue call failed has, and nothing is left        *)
(* waiting behind it.                                                      *)
(***************************************************************************)
AtRest ==
    /\ ~halted
    /\ \A j \in TaskIds : ~CanStart(j) /\ tasks[j].st \notin {"waiting", "accepted"}

EveryStageSignals == AtRest => \A j \in TaskIds : Signalled(j)

(***************************************************************************)
(* C12: a push stage that runs for a tensor that is not on the host while  *)
(* the context owns no staging buffer halts: it never gets as far as       *)
(* handing anything to the aggregation service or invoking its completion  *)
(* callback, nor does it leave with a recoverable error.                   *)
(***************************************************************************)
NeedsBuffer(j) ==
    /\ tasks[j].kind = "push"
    /\ tasks[j].st = "queued"
    /\ GetDevice(tasks[j].tensor) # CPU_DEVICE_ID
    /\ ~contexts[tasks[j].name].cpubuff

PushWithoutBufferHalts ==
    [][/\ \A j \in TaskIds : NeedsBuffer(j) => tasks'[j] = tasks[j]
       /\ (halted' /\ ~halted) =>
            /\ tasks' = tasks
            /\ \E j \in TaskIds :
                  /\ CanStart(j)
                  /\ GetDevice(tasks[j].tensor) # CPU_DEVICE_ID
                  /\ ~contexts[tasks[j].name].cpubuff]_vars

\* the process was halted by a push stage that found no staging buffer
HaltedByPush ==
    /\ halted
    /\ \E j \in TaskIds :
          /\ NeedsBuffer(j)
          /\ \A i \in 1..(j - 1) : Conflict(i, j) => Completed(i)

(***************************************************************************)
(* C13: at no time are two stages that reference the same context in       *)
(* flight together, a stage being in flight from the moment it starts to   *)
(* run until it invokes its completion callback; this for any sequence of  *)
(* calls on the context's name, whatever tensor handles they pass.         *)
(***************************************************************************)
InFlight(j) == tasks[j].kind # "div" /\ tasks[j].st \in {"waiting", "accepted"}

OneStageInFlightPerContext ==
    \A i, j \in TaskIds :
        (i # j /\ tasks[i].name = tasks[j].name) => ~(InFlight(i) /\ InFlight(j))

(***************************************************************************)
(* C16: whenever a push stage starts to run, the context it references is  *)
(* Ready; in particular it does not run on a context left Uninitialized by *)
(* a failed initialization of the same call.                               *)
(***************************************************************************)
PushStartsOnReadyContext ==
    [][\A j \in TaskIds :
          (tasks[j].kind = "push" /\ tasks[j].st = "queued" /\ tasks'[j].st # "queued")
          => contexts[tasks[j].name].state = "Ready"]_vars

(***************************************************************************)
(* C17: when the aggregation service rejects a registration, the           *)
(* initialization's completion callback is invoked with that error and     *)
(* the context is left as it was, Uninitialized if it was; and a           *)
(* synchronize call on a name whose context is Uninitialized pushes a new  *)
(* initialization operation.                                               *)
(***************************************************************************)
FailedInitCanBeRetried ==
    [][/\ \A j \in TaskIds :
            (/\ tasks[j].kind = "init"
             /\ tasks[j].st = "waiting"
             /\ tasks'[j].status.given
             /\ ~tasks'[j].status.ok)
            => /\ tasks'[j].cb.error
               /\ tasks'[j].cb.reason = tasks'[j].status.reason
               /\ contexts' = contexts
       /\ (/\ CallStep
           /\ NewCall.name \in DOMAIN contexts
           /\ contexts[NewCall.name].state = "Uninitialized")
          => /\ Len(NewOps) >= 1
             /\ NewOps[1].kind = "init"
             /\ NewOps[1].name = NewCall.name
             /\ NewOps[1].call = Len(calls')]_vars

\* a second initialization of a name has been pushed after the first was
\* rejected, the context being still Uninitialized
InitRetried ==
    \E c, d \in CallIds :
        /\ c < d
        /\ calls[c].name = calls[d].name
        /\ contexts[calls[c].name].state = "Uninitialized"
        /\ \E i \in OpsOf(c, "init") : tasks[i].cb.error
        /\ \E k \in OpsOf(d, "init") :
              \A i \in OpsOf(c, "init") : k > i /\ tasks[k].st = "waiting"

(***************************************************************************)
(* C19: of two synchronize calls on the same tensor handle and name, the   *)
(* push stage of the later one has not begun to run while the pull stage   *)
(* of the earlier one has not invoked its completion callback.             *)
(***************************************************************************)
SuccessiveCallsDoNotInterleave ==
    \A c, d \in CallIds :
        (c < d /\ calls[c].tensor = calls[d].tensor /\ calls[c].name = calls[d].name)
        => \A q \in OpsOf(d, "push") : \A p \in OpsOf(c, "pull") :
              Started(q) => Signalled(p)

\* the push of a second call on the same tensor and name is in flight
SecondCallPushes ==
    \E c, d \in CallIds :
        /\ c < d
        /\ calls[c].tensor = calls[d].tensor
        /\ calls[c].name = calls[d].name
        /\ OpsOf(c, "pull") # {}
        /\ \E q \in OpsOf(d, "push") : tasks[q].st = "waiting"

Synchronized(c) ==
    /\ calls[c].ret = 0
    /\ PipelineFinished(c)
    /\ \A j \in TaskIds : tasks[j].call = c => ~tasks[j].cb.error
    /\ \A d \in CallIds : d # c => calls[d].tensor # calls[c].tensor

EnginePriorityIsCallers ==
    \A j \in TaskIds :
        tasks[j].kind \in {"push", "pull"}
            => tasks[j].priority = calls[tasks[j].call].priority

\* C18 as amended: every push and pull operation is submitted to the host
\* engine with priority 0, and hands the priority the caller supplied to the
\* aggregation layer when it enqueues its request.
CallersPriorityReachesEnqueue ==
    \A j \in TaskIds :
        tasks[j].kind \in {"push", "pull"}
            => /\ tasks[j].priority = 0
               /\ tasks[j].captured = calls[tasks[j].call].priority
               /\ tasks[j].st \in {"waiting", "done"}
                      => tasks[j].enqueue_priority = calls[tasks[j].call].priority

\* a push and a pull of a call with a priority other than 0 were enqueued
PrioritizedCallEnqueued ==
    \E c \in CallIds :
        /\ calls[c].priority # 0
        /\ \E j \in OpsOf(c, "push") : tasks[j].enqueue_priority # -1
        /\ \E j \in OpsOf(c, "pull") : tasks[j].enqueue_priority # -1

====
